---- MODULE Spec2Model ----
(***************************************************************************)
(* Model of scripts/update_vscode_includes.py: the IntelliSense            *)
(* configuration updater (validator, discovery, change detection by        *)
(* content hash, orphan cleanup, document writer), with behaviours Spec,   *)
(* and of scripts/check_conan_config.py, the staleness checker of the      *)
(* Conan configuration, with behaviours SpecConan.                         *)
(*                                                                         *)
(* Representation of strings.  A Python str is modelled as the sequence of *)
(* its tokens, where the separators the code cuts strings at ("_", "-",    *)
(* ";", "/", " ", "${", "}") are tokens of their own and every other token *)
(* is a maximal run of characters without a separator.  Concatenation is   *)
(* \o, "startswith" is the prefix relation on token sequences and slicing  *)
(* off a prefix is SubSeq, so f-strings, prefix globs and split() are      *)
(* computed as the code computes them.  "foo_bar" is <<"foo","_","bar">>.  *)
(*                                                                         *)
(* An optional value (dict.get without the key, a file that does not       *)
(* exist) is None == << >> or Some(x) == << x >>.                          *)
(*                                                                         *)
(* SHA-256 is modelled as the identity on the byte string it is fed: the   *)
(* digest of a directory is the concatenation of the contents hashed, so   *)
(* two digests are equal exactly when the hashed byte strings are equal    *)
(* (collision freedom is assumed, nothing else).                           *)
(***************************************************************************)
EXTENDS Integers, Sequences, FiniteSets, TLC

\* ------------------------------------------------------------------------
\* Bounds of the model
\* ------------------------------------------------------------------------
\* filesystem changes made by the environment in one behaviour
MaxEdits == 1
\* invocations of main() in one behaviour
MaxRuns == 2

\* ------------------------------------------------------------------------
\* State
\* ------------------------------------------------------------------------
VARIABLES
    root,            \* Path.parts of the workspace root
    tree,            \* build/<preset>: kind, CMakeCache.txt, generators
    indicator,       \* .vscode holds one of the CMake Tools indicator files
    validated,       \* .vscode/.cmake_tools_validated exists
    hashes,          \* the hash record files of .vscode
    doc,             \* .vscode/c_cpp_properties.json: None or Some(document)
    exit,            \* exit status of the last run of main: None or Some(n)
    run,             \* history of the last run of main
    edited,          \* filesystem changes since the last run
    onpath,          \* the compilers shutil.which finds on the PATH
    conan,           \* check_conan_config.py: its input files, the CONAN_*
                     \* environment, the hash file, and its last run
    nEdits,
    nRuns

vars == << root, tree, indicator, validated, hashes, doc, exit, run, edited,
           onpath, conan, nEdits, nRuns >>

\* ------------------------------------------------------------------------
\* Optional values and small helpers
\* ------------------------------------------------------------------------
None == << >>
Some(x) == << x >>

Get(opt, default) == IF opt = None THEN default ELSE opt[1]

Min(S) == CHOOSE x \in S : \A y \in S : x <= y

Range(s) == { s[i] : i \in 1..Len(s) }

IsPrefix(p, s) == Len(p) <= Len(s) /\ SubSeq(s, 1, Len(p)) = p

\* str.split(sep) on a token string: the list of the pieces between the
\* separator tokens; "".split(";") is [""].
RECURSIVE Split(_, _)
Split(s, sep) ==
    LET at == { i \in 1..Len(s) : s[i] = sep }
    IN  IF at = {} THEN << s >>
        ELSE << SubSeq(s, 1, Min(at) - 1) >>
                 \o Split(SubSeq(s, Min(at) + 1, Len(s)), sep)

\* str.lower() on the tokens the model uses
LowerAtom(a) ==
    CASE a = "Debug" -> "debug"
      [] a = "Release" -> "release"
      [] OTHER -> a

Lower(s) == [i \in 1..Len(s) |-> LowerAtom(s[i])]

\* ------------------------------------------------------------------------
\* The workspace: paths, presets, cache files, metadata files
\* ------------------------------------------------------------------------
BUILD == <<"build">>

\* Path.parts of the workspace roots considered: an ordinary root, and a root
\* that lies directly inside a directory named "build".
RootPlain == << <<"/">>, <<"ws">> >>
RootInBuild == << <<"/">>, <<"build">>, <<"ws">> >>
Roots == { RootPlain, RootInBuild }

\* names of the directories under <root>/build
PresetFoo == <<"foo">>
PresetFooBar == <<"foo", "_", "bar">>
PresetDirs == { PresetFoo, PresetFooBar }
\* the order in which sorted() would list them; iterdir() may use any order
PresetOrders == { << PresetFoo, PresetFooBar >>, << PresetFooBar, PresetFoo >> }

Debug == <<"Debug">>
Release == <<"Release">>

\* CMakeCache.txt, as the fields CMakeCacheReader's patterns find in it
CacheDefault == [types |-> None, bt |-> None, cxx |-> None]
CacheRelease == [types |-> None, bt |-> Some(Release), cxx |-> None]
CacheMulti ==
    [types |-> Some(<<"Debug", ";", "Release">>), bt |-> Some(Release),
     cxx |-> None]
CacheShrunk == [types |-> Some(<<"Debug">>), bt |-> None, cxx |-> None]
CacheTrailing ==
    [types |-> Some(<<"Debug", ";">>), bt |-> Some(Release), cxx |-> None]
\* a cache file with a CMAKE_CXX_COMPILER:FILEPATH line, and one whose value
\* is blank after strip()
CacheCxx == [types |-> None, bt |-> None, cxx |-> Some(<<"/opt/cxx">>)]
CacheCxxBlank == [types |-> None, bt |-> None, cxx |-> Some(<< >>)]
Caches ==
    { CacheDefault, CacheRelease, CacheMulti, CacheShrunk, CacheTrailing,
      CacheCxx, CacheCxxBlank }

\* metadata file names in build/<preset>/build/generators
FDebug == <<"zlib", "-", "debug", "-", "x", "-", "data.cmake">>
FRelease == <<"zlib", "-", "release", "-", "x", "-", "data.cmake">>
FFmtDebug == <<"fmt", "-", "debug", "-", "x", "-", "data.cmake">>
\* ascending order of the names as Python compares them
FileOrder == << FFmtDebug, FDebug, FRelease >>
FileNames == Range(FileOrder)
\* the orders in which the filesystem may enumerate the generators directory
Listings == { l \in [1..Len(FileOrder) -> FileNames] : Range(l) = FileNames }

\* A metadata file's content is the sequence of its statements; a statement
\* stands for the bytes of its line.
\*   inc   set(X_INCLUDE_DIRS_Y "<v>")
\*   inct  set(X_INCLUDE_DIRS_Y "${<var>}/<v>")  (var contains PACKAGE_FOLDER)
\*   pkg   set(X_PACKAGE_FOLDER_Y "<v>")
\*   def   set(X_COMPILE_DEFINITIONS_Y "<v>")
\*   bad   bytes that are not valid text in the locale's encoding
St(k, var, v) == [k |-> k, var |-> var, v |-> v]

IncZ == <<"/", "z", "/", "include">>
IncZf == <<"/", "z", "/", "includf">>
PkgZ == <<"/", "p", "/", "z">>
ContentA == << St("inc", "", IncZ) >>
\* ContentA with its last byte changed
ContentB == << St("inc", "", IncZf) >>
ContentPkg ==
    << St("inc", "", IncZ),
       St("pkg", "", PkgZ),
       St("inct", "zlib_PACKAGE_FOLDER_DEBUG", <<"inc">>),
       St("def", "", <<"ZDEF", " ", "ZLIB">>) >>
\* ContentA with one byte replaced by a byte that is no valid text
ContentBad == << St("bad", "", IncZ) >>
Contents == { ContentA, ContentB, ContentPkg, ContentBad }

\* the pairs <<c, d>> of contents where d is c with exactly one byte changed
OneByteMutations ==
    { <<ContentA, ContentB>>, <<ContentB, ContentA>>, <<ContentA, ContentBad>> }

NoFiles == [f \in FileNames |-> None]

AbsentPreset ==
    [kind |-> "absent", cache |-> CacheDefault, gen |-> FALSE, files |-> NoFiles]

\* ------------------------------------------------------------------------
\* ConanDataParser
\* ------------------------------------------------------------------------
\* index of the first statement of c whose kind is in kinds (re.search), or 0
FirstOf(c, kinds) ==
    LET at == { i \in 1..Len(c) : c[i].k \in kinds }
    IN  IF at = {} THEN 0 ELSE Min(at)

\* the text between the quotes of an include statement
QuotedText(st) ==
    IF st.k = "inct" THEN <<"${", st.var, "}", "/">> \o st.v ELSE st.v

\* s.replace("${", "").replace("}", "")
StripBraces(s) == SelectSeq(s, LAMBDA t : t \notin {"${", "}"})

\* os.path.join(a, b)
PathJoin(a, b) ==
    IF b # << >> /\ Head(b) = "/" THEN b
    ELSE IF a = << >> \/ a[Len(a)] = "/" THEN a \o b
    ELSE a \o <<"/">> \o b

\* file_path.read_text() raises on bytes that are no valid text
ReadTextRaises(c) == \E i \in 1..Len(c) : c[i].k = "bad"

\* parse_data_file: the include_dirs list of one file
ParseIncludeDirs(c) ==
    LET m == FirstOf(c, {"inc", "inct"})
        first == IF m = 0 THEN << >> ELSE << StripBraces(QuotedText(c[m])) >>
        pf == FirstOf(c, {"pkg"})
        im == FirstOf(c, {"inct"})
    IN  IF pf = 0 THEN first
        ELSE IF im # 0 THEN << PathJoin(c[pf].v, c[im].v) >>
        ELSE IF first = << >> THEN << PathJoin(c[pf].v, <<"include">>) >>
        ELSE first

\* parse_data_file: the defines list of one file
ParseDefines(c) ==
    LET d == FirstOf(c, {"def"})
    IN  IF d = 0 \/ c[d].v = << >> THEN << >>
        ELSE SelectSeq(Split(c[d].v, " "), LAMBDA t : t # << >>)

\* glob of "*-{build_type.lower()}-*-data.cmake" against one file name
GlobMatches(name, build_type) ==
    LET b == Lower(build_type)
        n == Len(name)
    IN  \E k \in 1..n :
            /\ name[k] = "-"
            /\ k + Len(b) + 3 <= n
            /\ SubSeq(name, k + 1, k + Len(b)) = b
            /\ name[k + Len(b) + 1] = "-"
            /\ name[n - 1] = "-"
            /\ name[n] = "data.cmake"

\* the names of the files of the generators directory that the glob yields
MatchingFiles(files, build_type) ==
    { f \in DOMAIN files : files[f] # None /\ GlobMatches(f, build_type) }

\* scan_generators_directory: the sets it accumulates, or raised
ScanGeneratorsDirectory(files, build_type) ==
    LET fs == MatchingFiles(files, build_type)
    IN  [raised |-> \E f \in fs : ReadTextRaises(files[f][1]),
         include_dirs |-> UNION { Range(ParseIncludeDirs(files[f][1])) : f \in fs },
         defines |-> UNION { Range(ParseDefines(files[f][1])) : f \in fs }]

\* ------------------------------------------------------------------------
\* IntelliSenseConfigGenerator: pure parts
\* ------------------------------------------------------------------------
\* sorted() over the strings the model can produce: ascending code points
IncludeOrder ==
    << PathJoin(PkgZ, <<"inc">>), PathJoin(PkgZ, <<"include">>), IncZ, IncZf,
       <<"zlib_PACKAGE_FOLDER_DEBUG", "/", "inc">> >>
DefineOrder == << <<"ZDEF">>, <<"ZLIB">> >>

Sorted(S, order) == SelectSeq(order, LAMBDA x : x \in S)

\* _build_include_path
BuildIncludePath(conan_data) ==
    << <<"${workspaceFolder}/**">>, <<"${workspaceFolder}/include">>,
       <<"${workspaceFolder}/src">> >>
        \o Sorted(conan_data.include_dirs, IncludeOrder)

\* the define that depends on the build type
BuildTypeDefine(build_type) ==
    IF build_type = Debug THEN <<"_DEBUG">> ELSE <<"NDEBUG">>

\* _build_defines
BuildDefines(build_type, conan_data) ==
    << <<"UNICODE">>, <<"_UNICODE">>, BuildTypeDefine(build_type) >>
        \o Sorted(conan_data.defines, DefineOrder)

\* _extract_preset_name: the definition in force (the second one of the class)
ExtractPresetName(parts) ==
    LET n == Len(parts)
        hits == { i \in 1..n :
                    parts[i] = BUILD /\ i + 2 <= n /\ parts[i + 2] = BUILD }
    IN  IF hits # {} THEN parts[Min(hits) + 1]
        ELSE IF parts[n] = BUILD THEN parts[n - 1]
        ELSE parts[n]

\* _hash_directory: the files matching the build type, in sorted order,
\* fed to the hasher one after the other
RECURSIVE ConcatContents(_, _)
ConcatContents(names, files) ==
    IF names = << >> THEN << >>
    ELSE files[Head(names)][1] \o ConcatContents(Tail(names), files)

\* directory.glob(pattern) when the filesystem enumerates in the order listing
GlobIn(files, build_type, listing) ==
    LET m == MatchingFiles(files, build_type)
    IN  SelectSeq(listing, LAMBDA f : f \in m)

\* (mutant) the files are hashed in the order the glob yields them
SortedPaths_asListed(paths) == paths

\* sorted(paths)
SortedPaths(paths) == Sorted(Range(paths), FileOrder)

\* _hash_directory when the filesystem enumerates in the order listing
HashDirectoryIn(files, build_type, listing) ==
    ConcatContents(SortedPaths(GlobIn(files, build_type, listing)), files)

\* _hash_directory (the enumeration order taken is the ascending one; C18
\* compares it with every other)
HashDirectory(files, build_type) ==
    HashDirectoryIn(files, build_type, FileOrder)

\* name of the hash record of (preset, build type) in .vscode
HashFileName(preset_name, build_type) ==
    <<".conan_hash_">> \o preset_name \o <<"_">> \o build_type

\* the states of the PATH considered: gcc and clang, clang only, neither
Paths == { { "gcc", "clang" }, { "clang" }, {} }

\* shutil.which(name)
Which(name) == IF name \in onpath THEN Some(<<"/usr/bin/", name>>) ELSE None

\* (mutant) the probe's result comes first
CompilerPath_probeFirst(cache_data, detected) ==
    LET c == IF detected # None /\ detected[1] # << >>
             THEN detected ELSE cache_data.cxx
    IN  IF c # None /\ c[1] # << >> THEN c[1] ELSE << >>

\* CompilerDetector.detect_compiler on a Linux host (_detect_linux_compiler)
DetectCompiler ==
    IF Which("gcc") # None
    THEN [path |-> Which("gcc"), mode |-> <<"linux-gcc-x64">>]
    ELSE IF Which("clang") # None
    THEN [path |-> Which("clang"), mode |-> <<"linux-clang-x64">>]
    ELSE [path |-> None, mode |-> <<"linux-gcc-x64">>]

\* cache_data.get("CMAKE_CXX_COMPILER") or detected_compiler, then "" for None
CompilerPath(cache_data, detected) ==
    LET c == IF cache_data.cxx # None /\ cache_data.cxx[1] # << >>
             THEN cache_data.cxx ELSE detected
    IN  IF c # None /\ c[1] # << >> THEN c[1] ELSE << >>

\* ------------------------------------------------------------------------
\* IntelliSenseConfigGenerator: change detection, cleanup, one directory
\* ------------------------------------------------------------------------
\* The hash records of .vscode are a function from the names of the record
\* files that exist to their content.
NoHashes == [n \in {} |-> << >>]

WriteRecord(H, name, text) == (name :> text) @@ H

RemoveRecords(H, names) == [n \in (DOMAIN H) \ names |-> H[n]]

\* has_changes of _create_configuration: no record, or a different digest
\* (strip() changes nothing in a record, which holds a digest only)
HashDiffers(H, hash_file, content_hash) ==
    ~(hash_file \in DOMAIN H /\ H[hash_file] = content_hash)

\* (mutant) the record is written before the metadata is parsed
RecordsAfterCreate_early(H, hash_file, content_hash, has_changes, raised) ==
    IF has_changes THEN WriteRecord(H, hash_file, content_hash) ELSE H

\* the records after _create_configuration: the write of line 450 comes last,
\* so it is reached only when nothing before it raised
RecordsAfterCreate(H, hash_file, content_hash, has_changes, raised) ==
    IF ~raised /\ has_changes THEN WriteRecord(H, hash_file, content_hash)
    ELSE H

\* the configuration entry assembled in _create_configuration
MakeConfig(preset_name, build_type, cache_data, conan_data) ==
    [name |-> preset_name \o <<"-">> \o build_type,
     configurationProvider |-> <<"ms-vscode.cmake-tools">>,
     cStandard |-> <<"c17">>,
     cppStandard |-> <<"c++20">>,
     includePath |-> BuildIncludePath(conan_data),
     defines |-> BuildDefines(build_type, conan_data),
     compilerPath |-> CompilerPath(cache_data, DetectCompiler.path),
     intelliSenseMode |-> DetectCompiler.mode]

\* (mutant) a pair whose digest matches its record returns no entry
ReturnedConfig_onlyIfChanged(config, has_changes) ==
    IF has_changes THEN Some(config) ELSE None

\* the entry _create_configuration returns next to has_changes: the config
\* it built, whether or not the digest matched the record
ReturnedConfig(config, has_changes) == Some(config)

\* (mutant) the generators directory is taken to exist
GeneratorsDirExists_always(P) == TRUE

\* generators_dir.exists()
GeneratorsDirExists(P) == P.gen

\* _create_configuration on the directory state P with the records H:
\* the pair it returns, the records it leaves, whether it raised, and a note
\* of what it did (call is None when the generators directory is missing)
CreateConfiguration(preset_name, build_type, cache_data, P, H) ==
    IF ~GeneratorsDirExists(P)
    THEN [config |-> None, changed |-> FALSE, H |-> H, raised |-> FALSE,
          call |-> None]
    ELSE
    LET rest(content_hash, hash_file, conan_data) ==
            LET has_changes == HashDiffers(H, hash_file, content_hash)
                raised == conan_data.raised
                H2 == RecordsAfterCreate(H, hash_file, content_hash,
                                         has_changes, raised)
            IN  [config |-> IF raised THEN None
                            ELSE ReturnedConfig(
                                     MakeConfig(preset_name, build_type,
                                                cache_data, conan_data),
                                     has_changes),
                 changed |-> ~raised /\ has_changes,
                 H |-> H2,
                 raised |-> raised,
                 call |-> Some([hash_file |-> hash_file,
                                build_type |-> build_type,
                                stored |-> IF hash_file \in DOMAIN H
                                           THEN Some(H[hash_file]) ELSE None,
                                computed |-> content_hash,
                                after |-> IF hash_file \in DOMAIN H2
                                          THEN Some(H2[hash_file]) ELSE None,
                                changed |-> ~raised /\ has_changes,
                                completed |-> ~raised])]
    IN  rest(HashDirectory(P.files, build_type),
             HashFileName(preset_name, build_type),
             ScanGeneratorsDirectory(P.files, build_type))

\* the record files the glob of _cleanup_orphaned_hashes yields
RecordsOfPrefix(H, preset_name) ==
    { n \in DOMAIN H : IsPrefix(<<".conan_hash_">> \o preset_name \o <<"_">>, n) }

\* hash_file.name[len(hash_prefix):]
SuffixOf(name, preset_name) ==
    SubSeq(name, Len(<<".conan_hash_">> \o preset_name \o <<"_">>) + 1, Len(name))

\* (mutant) the cleaner keeps every record
Orphans_none(H, preset_name, valid_build_types) == {}

\* the records _cleanup_orphaned_hashes tries to unlink
Orphans(H, preset_name, valid_build_types) ==
    { n \in RecordsOfPrefix(H, preset_name) :
        SuffixOf(n, preset_name) \notin valid_build_types }

\* _cleanup_orphaned_hashes; failing is the set of files whose unlink raises
CleanupOrphanedHashes(H, preset_name, valid_build_types, failing) ==
    RemoveRecords(H, Orphans(H, preset_name, valid_build_types) \ failing)

\* the build types _process_build_directory creates configurations for
ConfigTypes(cache_data) == Split(Get(cache_data.types, << >>), ";")

IsMultiConfig(cache_data) == Len(ConfigTypes(cache_data)) > 1

\* (mutant) a multi-configuration build is given its active type only
TypesToProcess_activeOnly(cache_data) == << Get(cache_data.bt, Debug) >>

TypesToProcess(cache_data) ==
    IF IsMultiConfig(cache_data)
    THEN SelectSeq(ConfigTypes(cache_data), LAMBDA t : t # << >>)
    ELSE << Get(cache_data.bt, Debug) >>

ValidBuildTypes(cache_data) ==
    IF IsMultiConfig(cache_data) THEN Range(ConfigTypes(cache_data))
    ELSE { Get(cache_data.bt, Debug) }

\* the loop over the build types: acc carries the list of configurations, the
\* flag, the records and the notes; an exception ends the loop
RECURSIVE CreateAll(_, _, _, _, _)
CreateAll(preset_name, types, cache_data, P, acc) ==
    IF types = << >> \/ acc.raised THEN acc
    ELSE
    LET collect(r) ==
            [configs |-> acc.configs \o r.config,
             changed |-> acc.changed \/ (r.config # None /\ r.changed),
             H |-> r.H,
             raised |-> r.raised,
             calls |-> acc.calls \o r.call]
    IN  CreateAll(preset_name, Tail(types), cache_data, P,
            collect(CreateConfiguration(preset_name, Head(types), cache_data,
                                        P, acc.H)))

\* _process_build_directory on the directory with Path.parts parts and state
\* P.  valid is None when the function returned before computing it.
ProcessBuildDirectory(parts, P, H, failing) ==
    IF P.kind # "ok"
    THEN [configs |-> << >>, changed |-> FALSE, H |-> H, raised |-> FALSE,
          calls |-> << >>, preset |-> None, valid |-> None, failed |-> {}]
    ELSE
    LET cache_data == P.cache
        preset_name == ExtractPresetName(parts)
        finish(r, valid_build_types) ==
            IF r.raised
            THEN r @@ [preset |-> Some(preset_name), valid |-> None,
                       failed |-> {}]
            ELSE [r EXCEPT !.H = CleanupOrphanedHashes(r.H, preset_name,
                                     valid_build_types, failing)]
                   @@ [preset |-> Some(preset_name),
                       valid |-> Some(valid_build_types),
                       failed |-> Orphans(r.H, preset_name, valid_build_types)
                                      \cap failing]
    IN  finish(CreateAll(preset_name, TypesToProcess(cache_data), cache_data, P,
                   [configs |-> << >>, changed |-> FALSE, H |-> H,
                    raised |-> FALSE, calls |-> << >>]),
               ValidBuildTypes(cache_data))

\* ------------------------------------------------------------------------
\* Discovery and the validator
\* ------------------------------------------------------------------------
BuildDirPath(workspace_root, preset_dir) ==
    workspace_root \o << BUILD, preset_dir, BUILD >>

\* discover_build_directories: the preset directories whose inner build
\* directory holds a CMakeCache.txt, in the order iterdir() lists them
\* kind of build/<preset>: "absent" (no such entry), "file" (an entry that is
\* no directory), "noinner" (a directory without inner build directory),
\* "nocache" (inner build directory without CMakeCache.txt), "ok"
PresetIsDir(T, p) == T[p].kind \in {"noinner", "nocache", "ok"}
InnerBuildIsDir(T, p) == T[p].kind \in {"nocache", "ok"}
CacheFileExists(T, p) == T[p].kind = "ok"

\* (mutant) the cache file is not looked for
DiscoverBuildDirectories_anyInner(T, order) ==
    SelectSeq(order, LAMBDA p : PresetIsDir(T, p) /\ InnerBuildIsDir(T, p))

DiscoverBuildDirectories(T, order) ==
    SelectSeq(order, LAMBDA p :
        PresetIsDir(T, p) /\ InnerBuildIsDir(T, p) /\ CacheFileExists(T, p))

\* args.build_dir.exists()
BuildDirExists(T, p) == InnerBuildIsDir(T, p)

\* (mutant) a missing indicator is fatal
IsCMakeToolsInstalled_strict(cache_file_exists, indicator_exists) ==
    cache_file_exists \/ indicator_exists

\* is_cmake_tools_installed: what it returns
IsCMakeToolsInstalled(cache_file_exists, indicator_exists) == TRUE

\* is_cmake_tools_installed: whether it prints the note about the extension
PrintsNote(cache_file_exists, indicator_exists) ==
    ~cache_file_exists /\ ~indicator_exists

\* the loop of lines 284-288 of generate_configuration over the build
\* directories dirs (names of preset directories under root/build); acc carries
\* the locals, the records and a note per call of _process_build_directory;
\* an exception ends the loop
RECURSIVE ProcessAll(_, _, _, _, _)
ProcessAll(workspace_root, T, dirs, failing, acc) ==
    IF dirs = << >> \/ acc.raised THEN acc
    ELSE
    LET p == Head(dirs)
        collect(r) ==
            [configurations |-> IF r.raised THEN acc.configurations
                                ELSE acc.configurations \o r.configs,
             has_changes |-> IF r.raised THEN acc.has_changes
                             ELSE acc.has_changes \/ r.changed,
             H |-> r.H,
             raised |-> r.raised,
             steps |-> Append(acc.steps,
                 [dir |-> p, P |-> T[p], preset |-> r.preset, valid |-> r.valid,
                  failed |-> r.failed, before |-> acc.H, after |-> r.H,
                  calls |-> r.calls, configs |-> r.configs,
                  changed |-> r.changed, raised |-> r.raised])]
    IN  ProcessAll(workspace_root, T, Tail(dirs), failing,
            collect(ProcessBuildDirectory(BuildDirPath(workspace_root, p),
                                          T[p], acc.H, failing)))

\* (mutant) the two success codes are exchanged
ReturnCode_swapped(configs, changes) ==
    IF configs = << >> THEN 1
    ELSE IF changes THEN 2
    ELSE 0

\* generate_configuration: the value returned for the collected lists
ReturnCode(configs, changes) ==
    IF configs = << >> THEN 1
    ELSE IF changes THEN 0
    ELSE 2

\* (mutant) the document is written whenever there are entries
WritesDocument_always(configs, changes) == configs # << >>

\* generate_configuration: whether c_cpp_properties.json is opened for writing
WritesDocument(configs, changes) == configs # << >> /\ changes

\* (mutant) only the first entry is written
Document_firstOnly(configs) ==
    [version |-> 4,
     configurations |-> IF configs = << >> THEN << >> ELSE << Head(configs) >>,
     comment |-> <<"CMake Tools extension provides primary IntelliSense via compile_commands.json. Explicit paths serve as fallback.">>]

\* the document json.dump writes into the file opened with mode "w"; comment
\* is the key "$comment"
Document(configs) ==
    [version |-> 4,
     configurations |-> configs,
     comment |-> <<"CMake Tools extension provides primary IntelliSense via compile_commands.json. Explicit paths serve as fallback.">>]

\* ------------------------------------------------------------------------
\* Initial states
\* ------------------------------------------------------------------------
\* states of build/<preset> a behaviour may start in
ShapeSingle ==
    [kind |-> "ok", cache |-> CacheDefault, gen |-> TRUE,
     files |-> [NoFiles EXCEPT ![FDebug] = Some(ContentA)]]
ShapeSingleB ==
    [kind |-> "ok", cache |-> CacheDefault, gen |-> TRUE,
     files |-> [NoFiles EXCEPT ![FDebug] = Some(ContentB)]]
ShapeMulti ==
    [kind |-> "ok", cache |-> CacheMulti, gen |-> TRUE,
     files |-> [f \in FileNames |-> Some(ContentA)]]
InitShapes == { AbsentPreset, ShapeSingle, ShapeSingleB, ShapeMulti }

NoRun ==
    [done |-> FALSE, arg |-> None, dirs |-> << >>, noted |-> FALSE,
     indicator |-> FALSE, edits |-> {}, prevDone |-> FALSE, prevArg |-> None,
     prevExit |-> None,
     prevValid |-> [p \in PresetDirs |-> None],
     docBefore |-> None, hashesBefore |-> NoHashes,
     called |-> FALSE, configurations |-> << >>, has_changes |-> FALSE,
     steps |-> << >>, raised |-> FALSE, result |-> None, docOpened |-> FALSE]

\* check_conan_config.py is not run in the behaviours of Spec
NoConan ==
    [conanfile |-> None, profile |-> None, env |-> << >>, hash_file |-> None,
     last |-> None, updated |-> None, saved |-> None, fresh |-> FALSE]

Init ==
    /\ root \in Roots
    /\ tree \in [PresetDirs -> InitShapes]
    /\ indicator = FALSE
    /\ validated = FALSE
    /\ hashes = NoHashes
    /\ doc = None
    /\ exit = None
    /\ run = NoRun
    /\ edited = {}
    /\ onpath \in Paths
    /\ conan = NoConan
    /\ nEdits = 0
    /\ nRuns = 0

\* ------------------------------------------------------------------------
\* The program
\* ------------------------------------------------------------------------
\* the valid build types the run computed, by preset directory
ValidOfRun(steps) ==
    [p \in PresetDirs |->
        IF \E i \in 1..Len(steps) : steps[i].dir = p
        THEN steps[CHOOSE i \in 1..Len(steps) : steps[i].dir = p].valid
        ELSE None]

\* One run of main.  a is --build-dir: None, or Some(p) for
\* <root>/build/p/build; order is the order iterdir() lists the preset
\* directories in; failing is the set of record files whose unlink raises.
Main(a, order, failing) ==
    /\ nRuns < MaxRuns
    /\ nRuns' = nRuns + 1
    /\ validated' = TRUE
    /\ edited' = {}
    /\ LET build_dirs ==
               IF a = None THEN DiscoverBuildDirectories(tree, order)
               ELSE IF BuildDirExists(tree, a[1]) THEN a ELSE << >>
           r0 == [NoRun EXCEPT
                    !.done = TRUE, !.arg = a, !.dirs = build_dirs,
                    !.noted = PrintsNote(validated, indicator),
                    !.indicator = indicator,
                    !.edits = edited, !.prevDone = run.done,
                    !.prevArg = run.arg, !.prevExit = exit,
                    !.prevValid = IF run.done THEN ValidOfRun(run.steps)
                                  ELSE NoRun.prevValid,
                    !.docBefore = doc, !.hashesBefore = hashes]
       IN  IF ~IsCMakeToolsInstalled(validated, indicator) \/ build_dirs = << >>
           THEN /\ exit' = Some(1)
                /\ run' = r0
                /\ UNCHANGED << hashes, doc >>
           ELSE
           \E g \in { ProcessAll(root, tree, build_dirs, failing,
                        [configurations |-> << >>, has_changes |-> FALSE,
                         H |-> hashes, raised |-> FALSE, steps |-> << >>]) } :
           LET rc == ReturnCode(g.configurations, g.has_changes)
               w == ~g.raised /\ WritesDocument(g.configurations, g.has_changes)
           IN  /\ hashes' = g.H
               /\ doc' = IF w THEN Some(Document(g.configurations)) ELSE doc
               /\ exit' = IF g.raised THEN Some(1) ELSE Some(rc)
               /\ run' = [r0 EXCEPT
                            !.called = TRUE,
                            !.configurations = g.configurations,
                            !.has_changes = g.has_changes,
                            !.steps = g.steps,
                            !.raised = g.raised,
                            !.result = IF g.raised THEN None ELSE Some(rc),
                            !.docOpened = w]
    /\ UNCHANGED << root, tree, indicator, onpath, conan, nEdits >>

\* at most one record file is undeletable in a run
Failings == { {} } \cup { { n } : n \in DOMAIN hashes }

RunDiscovered ==
    \E order \in PresetOrders : \E failing \in Failings :
        Main(None, order, failing)

RunBuildDir ==
    \E p \in PresetDirs : \E failing \in Failings :
        Main(Some(p), << PresetFoo, PresetFooBar >>, failing)

\* ------------------------------------------------------------------------
\* The environment: the build system, the package manager and the user change
\* the filesystem between runs
\* ------------------------------------------------------------------------
\* (a change after the last run of a behaviour is not followed by anything)
Edit(op, p, f, how) ==
    /\ nEdits < MaxEdits
    /\ nRuns < MaxRuns
    /\ nEdits' = nEdits + 1
    /\ edited' = edited \cup { [op |-> op, p |-> p, f |-> f, how |-> how] }
    /\ UNCHANGED << root, hashes, doc, exit, run, nRuns, validated, onpath,
                    conan >>

\* cmake configure writes build/<p>/build/CMakeCache.txt
Configure(p, c) ==
    /\ tree[p].kind # "file"
    /\ tree[p].kind # "ok" \/ tree[p].cache # c
    /\ tree' = [tree EXCEPT ![p].kind = "ok", ![p].cache = c]
    /\ UNCHANGED indicator
    /\ Edit("cache", p, << >>, "write")

\* conan install writes, or an edit changes, one metadata file
WriteFile(p, f, c) ==
    /\ tree[p].kind \in {"nocache", "ok"}
    /\ tree[p].files[f] # Some(c)
    /\ tree' = [tree EXCEPT ![p].gen = TRUE, ![p].files[f] = Some(c)]
    /\ UNCHANGED indicator
    /\ Edit("file", p, f,
            IF tree[p].files[f] # None /\ <<tree[p].files[f][1], c>> \in OneByteMutations
            THEN "mutate" ELSE "write")

DeleteFile(p, f) ==
    /\ tree[p].files[f] # None
    /\ tree' = [tree EXCEPT ![p].files[f] = None]
    /\ UNCHANGED indicator
    /\ Edit("file", p, f, "delete")

\* the cache file is deleted to force a fresh configure
RemoveCache(p) ==
    /\ tree[p].kind = "ok"
    /\ tree' = [tree EXCEPT ![p].kind = "nocache", ![p].cache = CacheDefault]
    /\ UNCHANGED indicator
    /\ Edit("cache", p, << >>, "delete")

\* build/<p> is deleted
RemovePreset(p) ==
    /\ tree[p].kind # "absent"
    /\ tree' = [tree EXCEPT ![p] = AbsentPreset]
    /\ UNCHANGED indicator
    /\ Edit("preset", p, << >>, "delete")

\* the CMake Tools extension writes cmake-tools-kits.json
ActivateCMakeTools ==
    /\ ~indicator
    /\ indicator' = TRUE
    /\ UNCHANGED tree
    /\ Edit("indicator", << >>, << >>, "write")

\* build/<p>/build is deleted, build/<p> stays
RemoveInnerBuild(p) ==
    /\ tree[p].kind \in {"nocache", "ok"}
    /\ tree' = [tree EXCEPT ![p] = [AbsentPreset EXCEPT !.kind = "noinner"]]
    /\ UNCHANGED indicator
    /\ Edit("inner", p, << >>, "delete")

\* a file named p is put under <root>/build
PutFile(p) ==
    /\ tree[p].kind = "absent"
    /\ tree' = [tree EXCEPT ![p].kind = "file"]
    /\ UNCHANGED indicator
    /\ Edit("preset", p, << >>, "write")

EnvConfigure == \E p \in PresetDirs : \E c \in Caches : Configure(p, c)
EnvWriteFile ==
    \E p \in PresetDirs : \E f \in FileNames : \E c \in Contents : WriteFile(p, f, c)
EnvDeleteFile == \E p \in PresetDirs : \E f \in FileNames : DeleteFile(p, f)
EnvRemoveCache == \E p \in PresetDirs : RemoveCache(p)
EnvRemovePreset == \E p \in PresetDirs : RemovePreset(p)
EnvRemoveInnerBuild == \E p \in PresetDirs : RemoveInnerBuild(p)
EnvPutFile == \E p \in PresetDirs : PutFile(p)

Next ==
    \/ RunDiscovered
    \/ RunBuildDir
    \/ EnvConfigure
    \/ EnvWriteFile
    \/ EnvDeleteFile
    \/ EnvRemoveCache
    \/ EnvRemovePreset
    \/ EnvRemoveInnerBuild
    \/ EnvPutFile
    \/ ActivateCMakeTools

Spec == Init /\ [][Next]_vars

\* ------------------------------------------------------------------------
\* Properties.  They speak about the last run of main through its history:
\* run.steps[i] is the i-th call of _process_build_directory (its directory
\* state P, the records before and after, what it returned) and
\* run.steps[i].calls[j] the j-th call of _create_configuration inside it.
\* ------------------------------------------------------------------------
StepIx == 1..Len(run.steps)
CallIx(i) == 1..Len(run.steps[i].calls)

\* the (call of _process_build_directory, call of _create_configuration)
\* pairs marked changed in the last run
MarkedChanged ==
    { ij \in UNION { { <<i, j>> : j \in CallIx(i) } : i \in StepIx } :
        run.steps[ij[1]].calls[ij[2]].changed }

NoEntrySynthesized == \A i \in StepIx : run.steps[i].configs = << >>

EntryNames(configs) == [k \in 1..Len(configs) |-> configs[k].name]

\* the semicolon-separated list of configuration types of a cache file
ListedTypes(cache) == Split(Get(cache.types, << >>), ";")

\* C1: the document is written (or opened for writing) in a run only if some
\* pair processed in that run was marked changed; a run that marks no pair
\* changed leaves the document as it was.
C1_WrittenOnlyIfChanged ==
    run.done =>
        ((run.docOpened \/ doc # run.docBefore) => MarkedChanged # {})

\* a run that wrote the document, with a pair marked changed
C1_Witness == run.done /\ run.docOpened /\ MarkedChanged # {}

\* C2: a second run with the same arguments and no filesystem change in
\* between returns no-changes (2) and leaves the document's content as the
\* first run left it.  Stated for the first runs that ended with
\* entries-written or no-changes.
C2_SecondRunNoChanges ==
    (/\ run.done /\ run.prevDone
     /\ run.edits = {}
     /\ run.prevArg = run.arg
     /\ run.prevExit \in { Some(0), Some(2) })
        => (exit = Some(2) /\ doc = run.docBefore)

\* C3: after a finished run, a one-byte change of a metadata file that matches
\* an active build type of a pair makes the next run mark the pair changed,
\* store the new digest and rewrite the document (exit 0).  Stated for the
\* runs that end without an exception.
C3_MutationDetected ==
    \A e \in run.edits :
        (/\ run.done /\ run.prevDone /\ ~run.raised
         /\ run.edits = { e }
         /\ e.op = "file" /\ e.how = "mutate")
            => \A i \in StepIx : \A j \in CallIx(i) :
                   LET c == run.steps[i].calls[j]
                   IN  (run.steps[i].dir = e.p /\ GlobMatches(e.f, c.build_type))
                           => /\ c.changed
                              /\ c.after = Some(c.computed)
                              /\ run.docOpened
                              /\ exit = Some(0)

\* C4: when the valid build types of a preset were {Debug, Release} in the
\* last run and are {Debug} in this one, nothing else having changed, then
\* after this run the Release record of the preset is gone and the document
\* has no entry <preset>-Release.  Stated for the runs in which no deletion
\* fails.
C4_ShrinkDropsRelease ==
    \A i \in StepIx :
        LET st == run.steps[i]
        IN  (/\ run.done /\ run.prevDone /\ ~run.raised
             /\ run.prevValid[st.dir] = Some({ Debug, Release })
             /\ st.valid = Some({ Debug })
             /\ st.failed = {}
             /\ run.edits = { [op |-> "cache", p |-> st.dir, f |-> << >>,
                               how |-> "write"] })
                => /\ HashFileName(st.preset[1], Release) \notin DOMAIN hashes
                   /\ doc # None =>
                          \A k \in 1..Len(doc[1].configurations) :
                              doc[1].configurations[k].name
                                  # st.preset[1] \o <<"-">> \o Release

\* the entry names the fan-out is to give: one per non-empty listed type
ExpectedFanOut(preset_name, types) ==
    LET ne == SelectSeq(types, LAMBDA t : t # << >>)
    IN  [k \in 1..Len(ne) |-> preset_name \o <<"-">> \o ne[k]]

\* C5: for a build directory with a generators directory whose cache lists
\* more than one configuration type, _process_build_directory returns exactly
\* one entry per non-empty listed type, named <preset>-<type> with the preset
\* name the function derived, in list order, whatever CMAKE_BUILD_TYPE is.
C5_FanOut ==
    \A i \in StepIx :
        LET st == run.steps[i]
        IN  (/\ st.P.kind = "ok" /\ st.P.gen /\ ~st.raised
             /\ Len(ListedTypes(st.P.cache)) > 1)
                => EntryNames(st.configs)
                       = ExpectedFanOut(st.preset[1], ListedTypes(st.P.cache))

\* "Debug;Release" with CMAKE_BUILD_TYPE Release gave the two entries
C5_Witness ==
    \E i \in StepIx :
        /\ run.steps[i].P.cache = CacheMulti
        /\ run.steps[i].P.gen
        /\ Len(run.steps[i].configs) = 2
        /\ run.steps[i].configs[2].name
               = run.steps[i].preset[1] \o <<"-">> \o Release

\* every include directory a metadata file declares
DeclaredIncludeDirs(c) ==
    LET pf == FirstOf(c, {"pkg"})
    IN  { c[k].v : k \in { n \in 1..Len(c) : c[n].k = "inc" } }
        \cup { PathJoin(c[pf].v, c[k].v) :
                 k \in { n \in 1..Len(c) : c[n].k = "inct" /\ pf # 0 } }

\* C6: for build/<preset>/build with a generators directory and at most one
\* listed configuration type, the call returns exactly one entry, named
\* <preset>-<T> with T the cache's CMAKE_BUILD_TYPE or Debug; its include
\* path holds every include directory declared by the files matching T, its
\* defines hold _DEBUG when T is Debug and NDEBUG otherwise.
C6_SingleConfiguration ==
    \A i \in StepIx :
        LET st == run.steps[i]
            T == Get(st.P.cache.bt, Debug)
        IN  (/\ st.P.kind = "ok" /\ st.P.gen /\ ~st.raised
             /\ Len(ListedTypes(st.P.cache)) <= 1)
                => /\ Len(st.configs) = 1
                   /\ st.configs[1].name = st.dir \o <<"-">> \o T
                   /\ \A f \in MatchingFiles(st.P.files, T) :
                          DeclaredIncludeDirs(st.P.files[f][1])
                              \subseteq Range(st.configs[1].includePath)
                   /\ (IF T = Debug THEN <<"_DEBUG">> ELSE <<"NDEBUG">>)
                          \in Range(st.configs[1].defines)

\* C7: when generate_configuration returns, it returns 1 exactly when no entry
\* was synthesized, 0 exactly when there are entries and a pair marked
\* changed, 2 exactly when there are entries and no pair marked changed; the
\* exit status is that value; and a run exits 0 exactly when it wrote the
\* document.
C7_TriState ==
    /\ (run.called /\ ~run.raised) =>
           /\ run.result = Some(1) <=> NoEntrySynthesized
           /\ run.result = Some(0) <=> (~NoEntrySynthesized /\ MarkedChanged # {})
           /\ run.result = Some(2) <=> (~NoEntrySynthesized /\ MarkedChanged = {})
           /\ exit = run.result
    /\ run.done => (exit = Some(0) <=> run.docOpened)

\* a run that wrote the document, followed by a run that found no change
C7_Witness ==
    /\ run.done /\ run.prevExit = Some(0)
    /\ exit = Some(2) /\ ~run.docOpened /\ ~NoEntrySynthesized

\* C8 as stated: main exits 1, without writing the document or a record, when
\* no build directory is found and when no indicator file is present.
C8_FatalExits ==
    (run.done /\ (run.dirs = << >> \/ ~run.indicator))
        => /\ exit = Some(1)
           /\ ~run.docOpened /\ doc = run.docBefore
           /\ hashes = run.hashesBefore

\* C8 as amended: main exits 1, without writing the document or a record, when
\* no build directory is found; a missing indicator is not a fatal condition:
\* main does not exit on it and, when a build directory is found, goes on to
\* generate_configuration.
C8_FatalExitsAmended ==
    run.done =>
        /\ run.dirs = << >> =>
               /\ exit = Some(1)
               /\ ~run.docOpened /\ doc = run.docBefore
               /\ hashes = run.hashesBefore
        /\ (~run.indicator /\ run.dirs # << >>) => run.called

\* a run without indicator that found a build directory and returned 0,
\* followed by a run, still without indicator, that found none and exited 1
C8_Witness ==
    /\ run.done /\ run.prevDone
    /\ ~run.indicator
    /\ run.prevExit = Some(0)
    /\ run.dirs = << >> /\ exit = Some(1)

\* C9: when _process_build_directory has computed a preset's valid build
\* types and returns, and no deletion failed, no record of that preset with a
\* build type outside the valid set is left, and every record of the preset
\* with a valid build type is still there, unchanged unless change detection
\* wrote it in this call.
C9_OrphanCleaner ==
    \A i \in StepIx :
        LET st == run.steps[i]
        IN  (st.valid # None /\ st.failed = {}) =>
                /\ \A n \in RecordsOfPrefix(st.after, st.preset[1]) :
                       SuffixOf(n, st.preset[1]) \in st.valid[1]
                /\ \A T \in st.valid[1] :
                       LET n == HashFileName(st.preset[1], T)
                       IN  n \in DOMAIN st.before =>
                               /\ n \in DOMAIN st.after
                               /\ \/ st.after[n] = st.before[n]
                                  \/ \E j \in CallIx(i) :
                                         /\ st.calls[j].hash_file = n
                                         /\ st.calls[j].changed

\* a call that deleted an orphan record and kept a valid one
C9_Witness ==
    \E i \in StepIx :
        LET st == run.steps[i]
        IN  /\ st.valid # None /\ st.failed = {}
            /\ \E n \in DOMAIN st.before : n \notin DOMAIN st.after
            /\ \E T \in st.valid[1] :
                   HashFileName(st.preset[1], T) \in DOMAIN st.before

\* C10: _create_configuration writes the record only when there was none or
\* the stored digest differs from the computed one, and only once parse and
\* merge have completed; when the stored digest equals the computed one the
\* record stays as it is and the pair is not marked changed; after a write
\* the record holds the computed digest.
C10_HashRecordUpdate ==
    \A i \in StepIx : \A j \in CallIx(i) :
        LET c == run.steps[i].calls[j]
            wrote == c.after # c.stored
        IN  /\ wrote => /\ c.stored # Some(c.computed)
                        /\ c.completed
                        /\ c.after = Some(c.computed)
            /\ c.stored = Some(c.computed) => (~wrote /\ ~c.changed)
            /\ c.changed => wrote

\* in one run a call found the stored digest equal and left the record alone,
\* and a later call raised while parsing, its record not written
C10_Witness ==
    /\ \E i \in StepIx : \E j \in CallIx(i) :
           LET c == run.steps[i].calls[j]
           IN  c.completed /\ c.stored = Some(c.computed) /\ c.after = c.stored
    /\ \E i \in StepIx : \E j \in CallIx(i) :
           LET c == run.steps[i].calls[j]
           IN  ~c.completed /\ c.stored # Some(c.computed) /\ c.after = c.stored

\* ------------------------------------------------------------------------
\* Properties that compare the last run with another run of the same code.
\* They are stated for the state the run left (edited = {}), where tree is
\* still the tree the run saw.
\* ------------------------------------------------------------------------
\* the content a one-byte mutation produced d from
Unmutated(d) == CHOOSE c \in Contents : <<c, d>> \in OneByteMutations

\* the loop of generate_configuration over the directories of the last run,
\* on the tree T with the records H, no deletion failing
LoopOn(T, H) ==
    ProcessAll(root, T, run.dirs, {},
        [configurations |-> << >>, has_changes |-> FALSE, H |-> H,
         raised |-> FALSE, steps |-> << >>])

\* the record file of a name in the records H, None when there is none
RecordIn(H, n) == IF n \in DOMAIN H THEN Some(H[n]) ELSE None

\* C11: when one metadata file of build type B of a preset was changed by one
\* byte since the last run, the run that follows gives every other (preset,
\* build type) pair the same changed mark and leaves it the same record as
\* the run would have without the change.  Stated for the runs that end
\* without an exception and in which no deletion fails.
C11_InactiveIsolation ==
    \A e \in run.edits :
        (/\ run.done /\ run.called /\ ~run.raised /\ edited = {}
         /\ run.edits = { e } /\ e.op = "file" /\ e.how = "mutate"
         /\ \A i \in StepIx : run.steps[i].failed = {})
            => \E b \in { LoopOn([tree EXCEPT ![e.p].files[e.f] =
                              Some(Unmutated(tree[e.p].files[e.f][1]))],
                              run.hashesBefore) } :
               \A i \in StepIx : \A j \in CallIx(i) :
                   LET c == run.steps[i].calls[j]
                   IN  ~(run.steps[i].dir = e.p /\ GlobMatches(e.f, c.build_type))
                           => /\ c.changed = b.steps[i].calls[j].changed
                              /\ RecordIn(hashes, c.hash_file)
                                     = RecordIn(b.H, c.hash_file)

\* the entries the calls of _process_build_directory returned, in call order
RECURSIVE EntriesOf(_)
EntriesOf(steps) ==
    IF steps = << >> THEN << >>
    ELSE Head(steps).configs \o EntriesOf(Tail(steps))

\* C12: a run that writes the document leaves a document that holds the
\* version marker 4 and exactly the entries of all build directories
\* processed in that run, in processing order, the entries of pairs not
\* marked changed included, and nothing of the prior document.
C12_DocumentContent ==
    (run.done /\ run.docOpened) =>
        /\ doc # None
        /\ doc[1].version = 4
        /\ doc[1].configurations = EntriesOf(run.steps)
        /\ Len(run.steps) = Len(run.dirs)

\* a run that replaced a document with other entries and wrote the entry of
\* a pair it did not mark changed
C12_Witness ==
    /\ run.done /\ run.docOpened
    /\ run.docBefore # None
    /\ run.docBefore[1].configurations # doc[1].configurations
    /\ \E i \in StepIx : \E j \in CallIx(i) :
           /\ run.steps[i].calls[j].completed
           /\ ~run.steps[i].calls[j].changed
           /\ \E k \in 1..Len(doc[1].configurations) :
                  doc[1].configurations[k].name
                      = run.steps[i].preset[1] \o <<"-">>
                            \o run.steps[i].calls[j].build_type

\* C13: a call of _process_build_directory for a directory with a cache file
\* and no generators directory returns no entry and no changed mark, raises
\* nothing, and creates or modifies no hash record; the directory after it in
\* the list is still processed.
C13_NotYetConfigured ==
    \A i \in StepIx :
        LET st == run.steps[i]
        IN  (st.P.kind = "ok" /\ ~st.P.gen) =>
                /\ st.configs = << >>
                /\ ~st.changed
                /\ ~st.raised
                /\ \A n \in DOMAIN st.after :
                       n \in DOMAIN st.before /\ st.after[n] = st.before[n]
                /\ i < Len(run.dirs) => i + 1 \in StepIx

\* a directory without generators directory was processed while records
\* existed, and the directory after it gave an entry
C13_Witness ==
    \E i \in StepIx :
        /\ run.steps[i].P.kind = "ok" /\ ~run.steps[i].P.gen
        /\ run.steps[i].before # NoHashes
        /\ i + 1 \in StepIx
        /\ run.steps[i + 1].configs # << >>

\* the path the platform probe finds on a Linux host, None when it finds none
ProbedPath ==
    IF "gcc" \in onpath THEN Some(<<"/usr/bin/", "gcc">>)
    ELSE IF "clang" \in onpath THEN Some(<<"/usr/bin/", "clang">>)
    ELSE None

\* C14: the compilerPath of every synthesized entry is the cache file's
\* compiler path when the cache has a (non-blank) one, otherwise the path the
\* probe found when it found one, otherwise the empty string.
C14_CompilerPrecedence ==
    \A i \in StepIx : \A k \in 1..Len(run.steps[i].configs) :
        LET cxx == run.steps[i].P.cache.cxx
            entry == run.steps[i].configs[k]
        IN  IF cxx # None /\ cxx[1] # << >>
            THEN entry.compilerPath = cxx[1]
            ELSE IF ProbedPath # None
            THEN entry.compilerPath = ProbedPath[1]
            ELSE entry.compilerPath = << >>

\* in one run, with a compiler on the PATH, an entry took the cache's compiler
\* path and another entry the probed one
C14_Witness ==
    /\ ProbedPath # None
    /\ \E i \in StepIx :
           /\ run.steps[i].P.cache.cxx = Some(<<"/opt/cxx">>)
           /\ run.steps[i].configs # << >>
           /\ run.steps[i].configs[1].compilerPath = <<"/opt/cxx">>
    /\ \E i \in StepIx :
           /\ run.steps[i].P.cache.cxx = None
           /\ run.steps[i].configs # << >>
           /\ run.steps[i].configs[1].compilerPath = ProbedPath[1]

\* record sets that differ from the ones the last run started with: none at
\* all, and the ones the run left
AltRecords == { NoHashes, hashes }

\* C15: had the last run started with other hash records and everything else
\* the same, it would have synthesized the same list of entries (and raised
\* in the same case); the records bear on the changed flag only.
C15_CacheTransparency ==
    (run.done /\ run.called /\ edited = {}) =>
        \A H \in AltRecords :
            \E b \in { LoopOn(tree, H) } :
                /\ b.configurations = run.configurations
                /\ b.raised = run.raised

\* a run that synthesized entries and found no change, where the same run
\* without records synthesizes the same entries and reports a change
C15_Witness ==
    /\ run.done /\ run.called /\ ~run.raised /\ edited = {}
    /\ run.configurations # << >>
    /\ ~run.has_changes
    /\ LoopOn(tree, NoHashes).has_changes
    /\ LoopOn(tree, NoHashes).configurations = run.configurations

\* C16: when the deletion of an orphaned record fails in a call of
\* _process_build_directory, the cleaner still deletes the other orphans of
\* the preset, the directories after it are still processed, and the run
\* returns the same result and writes the document in the same case as the
\* same run in which every deletion succeeds.
C16_BestEffortCleanup ==
    (run.done /\ run.called /\ ~run.raised /\ edited = {}) =>
        \A i \in StepIx :
            LET st == run.steps[i]
            IN  st.failed # {} =>
                    /\ Orphans(st.after, st.preset[1], st.valid[1]) \subseteq st.failed
                    /\ i < Len(run.dirs) => i + 1 \in StepIx
                    /\ \E b \in { LoopOn(tree, run.hashesBefore) } :
                           /\ ReturnCode(b.configurations, b.has_changes)
                                  = run.result[1]
                           /\ WritesDocument(b.configurations, b.has_changes)
                                  = run.docOpened

\* C17: a discovery run finds exactly the directories <root>/build/<p>/build
\* that are directories holding a cache file, each once; an entry of
\* <root>/build that is absent, no directory, without inner build directory
\* or without cache file contributes nothing and nothing is raised; with
\* nothing under <root>/build the result is empty.
C17_Discovery ==
    (run.done /\ run.arg = None /\ edited = {}) =>
        /\ Range(run.dirs) = { p \in PresetDirs : tree[p].kind = "ok" }
        /\ Len(run.dirs) = Cardinality(Range(run.dirs))
        /\ (\A p \in PresetDirs : tree[p].kind = "absent") => run.dirs = << >>
        /\ run.dirs = << >> => (exit = Some(1) /\ ~run.raised)

\* a discovery run that skipped an entry of <root>/build that is no
\* directory, or has no inner build directory, and found the other one
C17_Witness ==
    /\ run.done /\ run.arg = None /\ edited = {}
    /\ \E p \in PresetDirs : tree[p].kind \in {"file", "noinner"}
    /\ Len(run.dirs) = 1
    /\ tree[run.dirs[1]].kind = "ok"

\* C18: the digest a call of _create_configuration computed for the metadata
\* files of its generators directory and its build type is the digest
\* _hash_directory returns for them whatever the order in which the
\* filesystem enumerates the directory.
C18_HashDeterminism ==
    \A i \in StepIx : \A j \in CallIx(i) : \A l \in Listings :
        HashDirectoryIn(run.steps[i].P.files, run.steps[i].calls[j].build_type, l)
            = run.steps[i].calls[j].computed

\* a run hashed two files of different content for one build type, in the
\* order opposite to the one in which the directory was enumerated
C18_Witness ==
    \E i \in StepIx : \E j \in CallIx(i) :
        LET st == run.steps[i]
            c == st.calls[j]
        IN  /\ edited = {}
            /\ st.P.files[FFmtDebug] # None /\ st.P.files[FDebug] # None
            /\ st.P.files[FFmtDebug] # st.P.files[FDebug]
            /\ c.build_type = Debug
            /\ GlobIn(st.P.files, Debug, << FRelease, FDebug, FFmtDebug >>)
                   = << FDebug, FFmtDebug >>
            /\ c.computed = st.P.files[FFmtDebug][1] \o st.P.files[FDebug][1]

\* C19: no failure inside a component aborts the run: every run that reaches
\* generate_configuration (a non-empty list of build directories) ends with
\* one of the three results.
C19_FailureContainment ==
    (run.done /\ run.called) =>
        /\ ~run.raised
        /\ run.result \in { Some(0), Some(1), Some(2) }

\* ========================================================================
\* scripts/check_conan_config.py
\* ========================================================================
\* MD5 is modelled like SHA-256 above: hexdigest() is the bytes fed to the
\* hasher, here between two marks (a hexdigest has a fixed length, so where
\* it ends in an f-string is never in doubt).
Md5Hex(bytes) == <<"md5(">> \o bytes \o <<")">>

\* contents of conanfile.txt and of the profile file; a file is None (does
\* not exist) or Some(content)
ConanfileA == <<"[requires]", "zlib/1.3">>
ConanfileB == <<"[requires]", "zlib/1.4">>
ConanFiles == { None, Some(ConanfileA), Some(ConanfileB) }
ProfileFiles == { None, Some(<< >>), Some(<<"[settings]">>) }

\* os.environ: a function from variable names to values.  KeyOrder is the
\* ascending order of the names as Python compares them.
KeyOrder ==
    << <<"CONAN_", "A">>, <<"CONAN_", "B">>, <<"CONAN_", "HOME">>, <<"HOME">> >>
\* CONAN_A=1CONAN_B=2 as one variable, and as the two variables CONAN_A=1 and
\* CONAN_B=2
EnvJoined == [k \in { <<"CONAN_", "A">> } |-> <<"1", "CONAN_", "B", "=", "2">>]
EnvSplit ==
    [k \in { <<"CONAN_", "A">>, <<"CONAN_", "B">> } |->
        IF k = <<"CONAN_", "A">> THEN <<"1">> ELSE <<"2">>]
Environs ==
    { [k \in {} |-> << >>],
      [k \in { <<"HOME">> } |-> <<"/", "root">>],
      [k \in { <<"CONAN_", "HOME">>, <<"HOME">> } |-> <<"/", "c">>],
      EnvJoined, EnvSplit }

\* --generator and --multi-config as given on the command line
Generators == { << >>, <<"Ninja">> }
MultiArgs == { "FALSE", "on" }

\* str.upper() on the values of --multi-config considered
Upper(a) == IF a = "on" THEN "ON" ELSE a

\* args.multi_config.upper() in ("TRUE", "ON", "1", "YES")
IsMultiConfigArg(a) == Upper(a) \in { "TRUE", "ON", "1", "YES" }

\* str(bool) in an f-string
BoolStr(b) == IF b THEN <<"True">> ELSE <<"False">>

\* compute_file_hash
ComputeFileHash(file) == IF file = None THEN << >> ELSE Md5Hex(file[1])

\* get_conan_env_vars: the CONAN_* variables, sorted by key
GetConanEnvVars(env) ==
    SelectSeq(KeyOrder, LAMBDA k : k \in DOMAIN env /\ Head(k) = "CONAN_")

\* the bytes the loop over env_vars feeds the hasher
RECURSIVE EnvBytes(_, _)
EnvBytes(keys, env) ==
    IF keys = << >> THEN << >>
    ELSE Head(keys) \o <<"=">> \o env[Head(keys)] \o EnvBytes(Tail(keys), env)

\* compute_config_hash
ComputeConfigHash(conanfile, profile, generator, is_multi_config, env) ==
    Md5Hex(<<"conanfile:">> \o ComputeFileHash(conanfile)
           \o <<"profile:">>
           \o (IF profile # None THEN ComputeFileHash(profile) ELSE << >>)
           \o <<"generator:">> \o generator
           \o <<"multi_config:">> \o BoolStr(is_multi_config)
           \o EnvBytes(GetConanEnvVars(env), env))

\* The hash file: None (missing), or Some of
\*   kind "object"  a JSON object; hash is None (no such key) or Some(value),
\*                  the value "" standing for every falsy value
\*   kind "array"   valid JSON that is no object
\*   kind "text"    text that is no JSON
\*   kind "bytes"   bytes that are no text in the encoding open() uses
JsonValue(kind, hash, generator, is_multi_config) ==
    [kind |-> kind, hash |-> hash, generator |-> generator,
     multi_config |-> is_multi_config]

EmptyDict == JsonValue("object", None, << >>, FALSE)

\* hash files written by something other than the script
ForeignHashFiles ==
    { Some(EmptyDict),
      Some(JsonValue("object", Some(<< >>), << >>, FALSE)),
      Some(JsonValue("object", Some(<<"abc">>), << >>, FALSE)),
      Some(JsonValue("array", None, << >>, FALSE)),
      Some(JsonValue("text", None, << >>, FALSE)),
      Some(JsonValue("bytes", None, << >>, FALSE)) }

\* load_hash_file: the value it returns, or raised when an exception other
\* than JSONDecodeError and IOError leaves it
LoadHashFile(hash_file) ==
    IF hash_file = None THEN [raised |-> FALSE, data |-> EmptyDict]
    ELSE IF hash_file[1].kind = "text" THEN [raised |-> FALSE, data |-> EmptyDict]
    ELSE IF hash_file[1].kind = "bytes" THEN [raised |-> TRUE, data |-> EmptyDict]
    ELSE [raised |-> FALSE, data |-> hash_file[1]]

\* current_hash != stored_hash
HashesDiffer(current_hash, stored_hash) == current_hash # stored_hash

\* the check mode of main after the hash was computed: the value returned
CheckMode(current_hash, hash_file) ==
    LET loaded == LoadHashFile(hash_file)
    IN  IF loaded.raised \/ loaded.data.kind # "object" THEN 2
        ELSE IF Get(loaded.data.hash, << >>) = << >> THEN 1
        ELSE IF HashesDiffer(current_hash, loaded.data.hash[1]) THEN 1
        ELSE 0

\* save_hash_file: the hash file it leaves (the timestamp, the paths and the
\* copies of the file hashes and of the environment are left out)
SaveHashFile(config_hash, generator, is_multi_config) ==
    Some(JsonValue("object", Some(config_hash), generator, is_multi_config))

\* main of check_conan_config.py: the value returned and the hash file left
ConanMain(c, update_hash, generator, multi_config) ==
    IF c.conanfile = None
    THEN [code |-> 2, hash_file |-> c.hash_file, current |-> None]
    ELSE
    LET is_multi_config == IsMultiConfigArg(multi_config)
        current_hash == ComputeConfigHash(c.conanfile, c.profile, generator,
                                          is_multi_config, c.env)
    IN  IF update_hash
        THEN [code |-> 0,
              hash_file |-> SaveHashFile(current_hash, generator, is_multi_config),
              current |-> Some(current_hash)]
        ELSE [code |-> CheckMode(current_hash, c.hash_file),
              hash_file |-> c.hash_file,
              current |-> Some(current_hash)]

\* ------------------------------------------------------------------------
\* Behaviours of check_conan_config.py
\* ------------------------------------------------------------------------
mainVars == << root, tree, indicator, validated, hashes, doc, exit, run,
               edited, onpath, nEdits, nRuns >>

InitConan ==
    /\ root = RootPlain
    /\ tree = [p \in PresetDirs |-> AbsentPreset]
    /\ indicator = FALSE
    /\ validated = FALSE
    /\ hashes = NoHashes
    /\ doc = None
    /\ exit = None
    /\ run = NoRun
    /\ edited = {}
    /\ onpath = {}
    /\ nEdits = 0
    /\ nRuns = 0
    /\ conan \in { [NoConan EXCEPT !.conanfile = f, !.profile = p, !.env = e] :
                     f \in ConanFiles, p \in ProfileFiles, e \in Environs }

\* One run of the script.  last records the run: its mode, its arguments and
\* the value returned; fresh says that nothing has changed since the run (a
\* run in check mode leaves the hash file as it is, so in a fresh state the
\* files are the ones the run saw).  updated holds the arguments of the last
\* --update-hash run that returned 0 for as long as no input and not the
\* hash file has changed since.  saved holds the inputs of the last
\* --update-hash run for as long as the hash file is the one that run wrote.
RunConan(update_hash, generator, multi_config) ==
    \E r \in { ConanMain(conan, update_hash, generator, multi_config) } :
        /\ conan' = [conan EXCEPT
                       !.hash_file = r.hash_file,
                       !.last = Some([update_hash |-> update_hash,
                                      generator |-> generator,
                                      multi_config |-> multi_config,
                                      code |-> r.code]),
                       !.fresh = TRUE,
                       !.updated = IF update_hash /\ r.code = 0
                                   THEN Some([generator |-> generator,
                                              multi_config |-> multi_config])
                                   ELSE IF update_hash THEN None
                                   ELSE conan.updated,
                       !.saved = IF update_hash /\ r.code = 0
                                 THEN Some([conanfile |-> conan.conanfile,
                                            profile |-> conan.profile,
                                            env |-> conan.env,
                                            generator |-> generator,
                                            is_multi_config |->
                                                IsMultiConfigArg(multi_config)])
                                 ELSE IF update_hash THEN None
                                 ELSE conan.saved]
        /\ UNCHANGED mainVars

ConanCheck ==
    \E g \in Generators : \E m \in MultiArgs : RunConan(FALSE, g, m)

ConanUpdateHash ==
    \E g \in Generators : \E m \in MultiArgs : RunConan(TRUE, g, m)

\* the environment of the script: the files and variables it reads change
ConanWriteConanfile ==
    \E f \in ConanFiles :
        /\ f # conan.conanfile
        /\ conan' = [conan EXCEPT !.conanfile = f, !.updated = None,
                                !.fresh = FALSE]
        /\ UNCHANGED mainVars

ConanWriteProfile ==
    \E p \in ProfileFiles :
        /\ p # conan.profile
        /\ conan' = [conan EXCEPT !.profile = p, !.updated = None,
                                !.fresh = FALSE]
        /\ UNCHANGED mainVars

ConanSetEnviron ==
    \E e \in Environs :
        /\ e # conan.env
        /\ conan' = [conan EXCEPT !.env = e, !.updated = None,
                                !.fresh = FALSE]
        /\ UNCHANGED mainVars

ConanWriteHashFile ==
    \E h \in ForeignHashFiles \cup { None } :
        /\ h # conan.hash_file
        /\ conan' = [conan EXCEPT !.hash_file = h, !.updated = None,
                                !.saved = None, !.fresh = FALSE]
        /\ UNCHANGED mainVars

NextConan ==
    \/ ConanCheck
    \/ ConanUpdateHash
    \/ ConanWriteConanfile
    \/ ConanWriteProfile
    \/ ConanSetEnviron
    \/ ConanWriteHashFile

SpecConan == InitConan /\ [][NextConan]_vars

\* ------------------------------------------------------------------------
\* Properties of check_conan_config.py.  They speak about the last run in the
\* state the run left (conan.fresh).
\* ------------------------------------------------------------------------
\* the hash the last run computed from the inputs, which are still the same
CurrentHash ==
    ComputeConfigHash(conan.conanfile, conan.profile, conan.last[1].generator,
                      IsMultiConfigArg(conan.last[1].multi_config), conan.env)

\* the hash file holds a JSON object with a non-empty hash
HoldsStoredHash(hash_file) ==
    /\ hash_file # None
    /\ hash_file[1].kind = "object"
    /\ hash_file[1].hash # None
    /\ hash_file[1].hash[1] # << >>

\* C20: a run in check mode returns 2 when the conanfile does not exist;
\* otherwise it returns 0 exactly when the hash file holds a non-empty hash
\* equal to the hash of the current inputs, and 1 when the hash file is
\* missing, cannot be parsed, has no hash or holds another hash; a check
\* that follows an --update-hash run with the same arguments and no change
\* in between returns 0.
C20_CheckerResult ==
    (conan.last # None /\ conan.fresh /\ ~conan.last[1].update_hash) =>
        LET code == conan.last[1].code
            hf == conan.hash_file
        IN  /\ conan.conanfile = None => code = 2
            /\ conan.conanfile # None =>
                   /\ code = 0 <=> (HoldsStoredHash(hf)
                                    /\ hf[1].hash[1] = CurrentHash)
                   /\ (~HoldsStoredHash(hf) \/ hf[1].hash[1] # CurrentHash)
                          => code = 1
            /\ (conan.updated
                    = Some([generator |-> conan.last[1].generator,
                            multi_config |-> conan.last[1].multi_config]))
                   => code = 0

\* ------------------------------------------------------------------------
\* Properties of the document and the records across runs
\* ------------------------------------------------------------------------
\* C21: whenever a run over the discovered build directories ends with
\* entries-written (0) or no-changes (2), whatever runs and filesystem changes
\* came before it, the document on disk holds the entries synthesized in that
\* run and no others.  (The lists are compared as sets of entries: the order
\* of the entries is the order in which the filesystem lists the directories,
\* which may differ between two runs.)
C21_DocumentSynchronization ==
    (/\ run.done /\ run.arg = None /\ edited = {}
     /\ exit \in { Some(0), Some(2) })
        => /\ doc # None
           /\ Range(doc[1].configurations) = Range(run.configurations)

\* the build types records are written for
BuildTypes == { Debug, Release }

\* C22: the orphan cleanup performed for preset P in a call of
\* _process_build_directory neither deletes nor modifies a hash record of
\* another preset Q, also when Q's name is P's followed by an underscore
\* (P = foo, Q = foo_bar).  (A call for P writes records of P only, so a
\* record of Q that differs after the call was touched by the cleanup.)
C22_CleanupIsolation ==
    \A i \in StepIx : \A Q \in PresetDirs : \A t \in BuildTypes :
        LET st == run.steps[i]
        IN  (st.valid # None /\ st.preset # Some(Q))
                => RecordIn(st.after, HashFileName(Q, t))
                       = RecordIn(st.before, HashFileName(Q, t))

\* C23: in every run, also one that an exception ends in a later build
\* directory, a hash record is created or updated by a call of
\* _create_configuration only if the document is written in the same run; so
\* no record holds the digest of metadata that is newer than the document.
C23_HashDocumentAtomicity ==
    run.done =>
        \A i \in StepIx : \A j \in CallIx(i) :
            LET c == run.steps[i].calls[j]
            IN  c.after # c.stored => run.docOpened

\* C24: _extract_preset_name returns <preset> for root/build/<preset>/build
\* whatever the workspace root, one directly under a directory named build
\* included; so in a run over the discovered directories the derived name of
\* every directory is the name of its preset directory, and two directories
\* of the run have different preset names, different hash records and
\* different entry names.
C24_PresetNameDerivation ==
    (run.done /\ run.arg = None) =>
        /\ \A i \in StepIx :
               /\ run.steps[i].preset = Some(run.steps[i].dir)
               /\ ExtractPresetName(BuildDirPath(root, run.steps[i].dir))
                      = run.steps[i].dir
        /\ \A i \in StepIx : \A k \in StepIx \ { i } :
               /\ run.steps[i].preset # run.steps[k].preset
               /\ \A j \in CallIx(i) : \A l \in CallIx(k) :
                      run.steps[i].calls[j].hash_file
                          # run.steps[k].calls[l].hash_file
               /\ Range(EntryNames(run.steps[i].configs))
                      \cap Range(EntryNames(run.steps[k].configs)) = {}

\* the CONAN_* variables of an environment, names and values
ConanVars(env) ==
    [k \in { k \in DOMAIN env : Head(k) = "CONAN_" } |-> env[k]]

\* C25: when, since the --update-hash run that wrote the hash file, the
\* content of the conanfile, the content or the existence of the profile, the
\* generator, the multi-config flag or the CONAN_* variables (names or
\* values) have changed, a run in check mode returns 1; and two different
\* assignments of CONAN_* variables feed different bytes to the hasher.
\* Stated for the runs that find the conanfile.
C25_ChangeSensitivity ==
    (/\ conan.last # None /\ conan.fresh /\ ~conan.last[1].update_hash
     /\ conan.saved # None /\ conan.conanfile # None)
        => LET s == conan.saved[1]
               l == conan.last[1]
           IN  /\ (\/ conan.conanfile # s.conanfile
                   \/ conan.profile # s.profile
                   \/ l.generator # s.generator
                   \/ IsMultiConfigArg(l.multi_config) # s.is_multi_config
                   \/ ConanVars(conan.env) # ConanVars(s.env))
                      => l.code = 1
               /\ ConanVars(conan.env) # ConanVars(s.env)
                      => EnvBytes(GetConanEnvVars(conan.env), conan.env)
                             # EnvBytes(GetConanEnvVars(s.env), s.env)

====
